---- MODULE Spec2Model ----
(***************************************************************************)
(* Model of internal/image/compare.go of shioshosho/diff-docx: the         *)
(* content-based image reconciliation (MatchImageSets, matchExtGroup), the *)
(* oracle adapter (compare, parsePSNROutput) and the helpers they use.     *)
(*                                                                         *)
(* Strings are sequences of one-character strings, so that the string      *)
(* functions of the source (filepath.Ext, strings.ToLower, the regular     *)
(* expression of parsePSNROutput, strconv.ParseFloat, the byte order used  *)
(* by sort) are computed, not assumed.                                     *)
(***************************************************************************)
EXTENDS Integers, Sequences, FiniteSets, TLC

\* ------------------------------------------------------------------ bounds
\* Most images one document side holds.
MaxPerSide == 2
\* Most fragments one oracle report is made of.
MaxFrags == 2
\* Most images of word/media ReplaceBase64Images is given.
MaxImages == 10
\* Most pieces the markdown content is made of.
MaxPieces == 2

\* ----------------------------------------------------------------- strings
\* The characters the model uses, in ascending byte order.
Alphabet ==
  << "\n", " ", "!", "(", ")", ",", "-", ".", "/",
     "0", "1", "2", "3", "4", "5", "6", "7", "8", "9",
     ":", ";", "A", "B", "D", "E", "F", "G", "I", "L", "N", "P", "R", "U",
     "[", "]", "_", "a", "b", "c", "d", "e", "f", "g", "i", "j", "l", "m", "n", "p",
     "r", "s", "t", "u", "w", "x" >>

\* The rank of a character in byte order.
Rank == [c \in {Alphabet[k] : k \in 1..Len(Alphabet)} |->
           CHOOSE k \in 1..Len(Alphabet) : Alphabet[k] = c]
Ord(c) == Rank[c]

Upper == << "A", "B", "D", "E", "F", "G", "I", "L", "N", "P", "R", "U" >>
Lower == << "a", "b", "d", "e", "f", "g", "i", "l", "n", "p", "r", "u" >>

LowerOf == [c \in {Upper[k] : k \in 1..Len(Upper)} |->
              Lower[CHOOSE k \in 1..Len(Upper) : Upper[k] = c]]
LowerChar(c) == IF c \in DOMAIN LowerOf THEN LowerOf[c] ELSE c

\* strings.ToLower
ToLower(s) == [k \in 1..Len(s) |-> LowerChar(s[k])]

\* The < of Go strings: lexicographic in byte order.
RECURSIVE StrLess(_, _)
StrLess(s, t) ==
  IF t = << >> THEN FALSE
  ELSE IF s = << >> THEN TRUE
  ELSE IF s[1] # t[1] THEN Ord(s[1]) < Ord(t[1])
  ELSE StrLess(Tail(s), Tail(t))

HasPrefixAt(s, p, at) ==
  /\ at + Len(p) - 1 <= Len(s)
  /\ \A k \in 1..Len(p) : s[at + k - 1] = p[k]

\* strings.HasSuffix
HasSuffix(s, suf) ==
  /\ Len(suf) <= Len(s)
  /\ HasPrefixAt(s, suf, Len(s) - Len(suf) + 1)

\* strings.TrimSuffix
TrimSuffix(s, suf) ==
  IF HasSuffix(s, suf) THEN SubSeq(s, 1, Len(s) - Len(suf)) ELSE s

\* strings.Contains
Contains(s, sub) == \E at \in 1..(Len(s) + 1) : HasPrefixAt(s, sub, at)

\* filepath.Ext: the suffix from the last dot of the last path element.
Ext(path) ==
  LET dots == {k \in 1..Len(path) :
                 /\ path[k] = "."
                 /\ \A m \in k..Len(path) : path[m] # "/"}
  IN  IF dots = {} THEN << >>
      ELSE LET d == CHOOSE k \in dots : \A m \in dots : m <= k
           IN  SubSeq(path, d, Len(path))

\* filepath.Base of a path without a trailing separator.
Base(path) ==
  LET seps == {k \in 1..Len(path) : path[k] = "/"}
  IN  IF seps = {} THEN path
      ELSE LET d == CHOOSE k \in seps : \A m \in seps : m <= k
           IN  SubSeq(path, d + 1, Len(path))

\* filepath.Join of a directory and a file name.
Join(dir, name) == dir \o << "/" >> \o name

\* ----------------------------------------------------------------- numbers
\* A decimal number m / 10^e, the value strconv.ParseFloat gives for a string
\* of digits with at most one dot. Norm strips the trailing zeros, so that
\* 1.0 and 1 are the same value.
RECURSIVE Pow10(_)
Pow10(e) == IF e = 0 THEN 1 ELSE 10 * Pow10(e - 1)

RECURSIVE Norm(_)
Norm(x) ==
  IF x.e > 0 /\ x.m % 10 = 0 THEN Norm([m |-> x.m \div 10, e |-> x.e - 1]) ELSE x

FLess(x, y) == x.m * Pow10(y.e) < y.m * Pow10(x.e)

Minus1 == [m |-> -1, e |-> 0]
Zero == [m |-> 0, e |-> 0]

\* PSNRThreshold = 1.0
PSNRThreshold == [m |-> 1, e |-> 0]

Digits == << "0", "1", "2", "3", "4", "5", "6", "7", "8", "9" >>
IsDigit(c) == \E k \in 1..10 : Digits[k] = c
DigitVal(c) == (CHOOSE k \in 1..10 : Digits[k] = c) - 1

RECURSIVE DigitsVal(_)
DigitsVal(s) ==
  IF s = << >> THEN 0
  ELSE 10 * DigitsVal(SubSeq(s, 1, Len(s) - 1)) + DigitVal(s[Len(s)])

\* strconv.ParseFloat(value, 64) on a string of digits and dots: err is TRUE
\* unless the string holds at least one digit and at most one dot.
ParseFloat(value) ==
  LET dots == {k \in 1..Len(value) : value[k] = "."}
      digs == SelectSeq(value, IsDigit)
  IN  IF Cardinality(dots) > 1 \/ digs = << >>
          \/ \E k \in 1..Len(value) : ~IsDigit(value[k]) /\ value[k] # "."
        THEN [err |-> TRUE, val |-> Zero]
        ELSE LET d == IF dots = {} THEN Len(value) + 1 ELSE CHOOSE k \in dots : TRUE
             IN  [err |-> FALSE,
                  val |-> Norm([m |-> DigitsVal(digs), e |-> Len(value) - d + (IF dots = {} THEN 1 ELSE 0)])]

\* ------------------------------------------------------- parsePSNROutput
\* The channel pattern (?i)(red|green|blue|all):\s*([\d.]+|inf)
ChannelLabels ==
  { << "r", "e", "d" >>, << "g", "r", "e", "e", "n" >>,
    << "b", "l", "u", "e" >>, << "a", "l", "l" >> }
Inf == << "i", "n", "f" >>

IsSpace(c) == c \in {" ", "\n"}
IsValueChar(c) == IsDigit(c) \/ c = "."

\* The end (exclusive) of the longest run of white space from at: \s*.
RECURSIVE SpaceEnd(_, _)
SpaceEnd(s, at) ==
  IF at <= Len(s) /\ IsSpace(s[at]) THEN SpaceEnd(s, at + 1) ELSE at

\* The end (exclusive) of the longest run of digits and dots from at: [\d.]+.
RECURSIVE ValueEnd(_, _)
ValueEnd(s, at) ==
  IF at <= Len(s) /\ IsValueChar(s[at]) THEN ValueEnd(s, at + 1) ELSE at

\* Whether p, in lower case, is at position at of s in any letter case: (?i).
HasFoldedAt(s, p, at) ==
  /\ at + Len(p) - 1 <= Len(s)
  /\ \A k \in 1..Len(p) : LowerChar(s[at + k - 1]) = p[k]

\* The match of the channel pattern that starts at position at, if any:
\* ok, the text of group 2 and the position after the match.
MatchAt(s, at) ==
  LET labs == {l \in ChannelLabels : HasFoldedAt(s, l \o << ":" >>, at)}
  IN  IF labs = {} THEN [ok |-> FALSE, value |-> << >>, end |-> at]
      ELSE LET l == CHOOSE x \in labs : TRUE
               v == SpaceEnd(s, at + Len(l) + 1)
               w == ValueEnd(s, v)
           IN  IF w > v THEN [ok |-> TRUE, value |-> SubSeq(s, v, w - 1), end |-> w]
               ELSE IF HasFoldedAt(s, Inf, v)
                 THEN [ok |-> TRUE, value |-> SubSeq(s, v, v + 2), end |-> v + 3]
               ELSE [ok |-> FALSE, value |-> << >>, end |-> at]

\* channelPattern.FindAllStringSubmatch(output, -1), group 2 of each match:
\* the leftmost matches, none overlapping another.
RECURSIVE FindAllValues(_, _)
FindAllValues(s, from) ==
  IF from > Len(s) THEN << >>
  ELSE LET m == MatchAt(s, from)
       IN  IF m.ok THEN << m.value >> \o FindAllValues(s, m.end)
           ELSE FindAllValues(s, from + 1)

\* Parsing with a loop that keeps the value read last.
ParseStepLast(acc, value) ==
  IF ToLower(value) = Inf THEN acc
  ELSE LET p == ParseFloat(value)
       IN  IF p.err THEN acc
           ELSE [isDifferent |-> acc.isDifferent \/ FLess(p.val, PSNRThreshold),
                 psnr |-> p.val]

\* One iteration of the loop over the matches (lines 130-147): acc is
\* (isDifferent, psnr) so far.
ParseStep(acc, value) ==
  IF ToLower(value) = Inf THEN acc
  ELSE LET p == ParseFloat(value)
       IN  IF p.err THEN acc
           ELSE [isDifferent |-> acc.isDifferent \/ FLess(p.val, PSNRThreshold),
                 psnr |-> IF acc.psnr.m < 0 \/ FLess(p.val, acc.psnr)
                            THEN p.val ELSE acc.psnr]

RECURSIVE ParseLoop(_, _)
ParseLoop(acc, values) ==
  IF values = << >> THEN acc
  ELSE ParseLoop(ParseStep(acc, Head(values)), Tail(values))

\* The zero-signal heuristic (lines 149-156).
ZeroSignal(output) ==
  Contains(output, << " ", "0", " " >>) \/ Contains(output, << " ", "0", "\n" >>)

ParseFallback(acc, output) ==
  IF acc.psnr.m < 0
    THEN IF ZeroSignal(output)
           THEN [isDifferent |-> TRUE, psnr |-> Zero]
           ELSE [isDifferent |-> acc.isDifferent, psnr |-> Minus1]
    ELSE acc

parsePSNROutput(output) ==
  ParseFallback(ParseLoop([isDifferent |-> FALSE, psnr |-> Minus1],
                          FindAllValues(output, 1)),
                output)

\* ----------------------------------------------------------------- compare
\* What cmd.Run() gives is a record: runErr is "nil", "exit" (an
\* *exec.ExitError, with its exit code) or "other" (any other error: the
\* binary is missing, an I/O failure), and output is stderr followed by stdout.
NoError == "nil"

\* diffPath of compare (lines 96-97): where the oracle is told to write.
ArtifactPath(image1, outputDir) ==
  LET baseName == TrimSuffix(Base(image1), Ext(image1))
  IN  Join(outputDir, baseName \o << "_", "c", "m", "p", ".", "p", "n", "g" >>)

\* The files there are after cmd.Run() (lines 99-104): the oracle wrote the
\* artifact or it did not.
FilesAfterRun(fs, image1, outputDir, ran) ==
  IF ran.wrote THEN fs \cup {ArtifactPath(image1, outputDir)} ELSE fs

\* compare that leaves the artifact of a not-different outcome where it is.
FilesAfterParseKeep(fs, image1, outputDir, parsed) == fs

\* The files there are after lines 109-112: os.Remove(diffPath) when the
\* outcome is not different.
FilesAfterParse(fs, image1, outputDir, parsed) ==
  IF ~parsed.isDifferent THEN fs \ {ArtifactPath(image1, outputDir)} ELSE fs

\* Lines 96-97 and 109-122 of compare: what it returns, given what running the
\* oracle gave and what parsePSNROutput made of the output.
CompareResult(image1, outputDir, ran, parsed) ==
  LET diffPath == ArtifactPath(image1, outputDir)
  IN  IF ran.runErr # NoError /\ ~parsed.isDifferent /\ ran.runErr = "exit" /\ ran.code > 1
        THEN [isDifferent |-> FALSE, psnr |-> Minus1, diffPath |-> << >>, err |-> TRUE]
        ELSE [isDifferent |-> parsed.isDifferent, psnr |-> parsed.psnr,
              diffPath |-> IF parsed.isDifferent THEN diffPath ELSE << >>,
              err |-> FALSE]

\* What running the oracle may give, by name. The oracle writes the artifact
\* whenever it compared the images (exit code 0 or 1).
OracleRun(answer) ==
  CASE answer = "identical" ->
         [runErr |-> "nil", code |-> 0, wrote |-> TRUE,
          output |-> << "a", "l", "l", ":", " ", "i", "n", "f", "\n" >>]
    [] answer = "differ" ->
         [runErr |-> "exit", code |-> 1, wrote |-> TRUE,
          output |-> << "a", "l", "l", ":", " ", "0", ".", "5", "\n" >>]
    [] answer = "close" ->
         [runErr |-> "exit", code |-> 1, wrote |-> TRUE,
          output |-> << "a", "l", "l", ":", " ", "3", "5", ".", "5", "\n" >>]
    [] answer = "fail" ->
         [runErr |-> "exit", code |-> 2, wrote |-> FALSE, output |-> << "x", "\n" >>]
    [] answer = "missing" ->
         [runErr |-> "other", code |-> 0, wrote |-> FALSE, output |-> << >>]

Answers == {"identical", "differ", "close", "fail", "missing"}

\* The answers of an oracle that answers a pair the same way every time.
StableAnswers == {"identical", "differ", "fail"}

\* Line 107 for each answer: parsePSNROutput of the output of the run.
Parsed == [answer \in Answers |-> parsePSNROutput(OracleRun(answer).output)]

\* compare (lines 95-123), the oracle giving this answer.
compare(image1, image2, outputDir, answer) ==
  CompareResult(image1, outputDir, OracleRun(answer), Parsed[answer])

\* The files compare leaves (lines 99-112), the oracle giving this answer.
compareFiles(fs, image1, outputDir, answer) ==
  FilesAfterParse(FilesAfterRun(fs, image1, outputDir, OracleRun(answer)),
                  image1, outputDir, Parsed[answer])

\* ---------------------------------------------------- capability and groups
Png  == << ".", "p", "n", "g" >>
Jpg  == << ".", "j", "p", "g" >>
Jpeg == << ".", "j", "p", "e", "g" >>
Bmp  == << ".", "b", "m", "p" >>
Gif  == << ".", "g", "i", "f" >>
Tiff == << ".", "t", "i", "f", "f" >>
Tif  == << ".", "t", "i", "f" >>
Webp == << ".", "w", "e", "b", "p" >>
Wmf  == << ".", "w", "m", "f" >>
Emf  == << ".", "e", "m", "f" >>
Svg  == << ".", "s", "v", "g" >>

rasterExts == {Png, Jpg, Jpeg, Bmp, Gif, Tiff, Tif, Webp}
vectorExts == {Wmf, Emf, Svg}

\* canCompareExt without the probe: a vector extension always passes.
canCompareExtNoProbe(ext, hasLO) ==
  LET e == ToLower(ext)
  IN  e \in rasterExts \/ e \in vectorExts

\* canCompareExt, with the cached answer of hasLibreOffice.
canCompareExt(ext, hasLO) ==
  LET e == ToLower(ext)
  IN  IF e \in rasterExts THEN TRUE
      ELSE IF e \in vectorExts THEN hasLO
      ELSE FALSE

\* sort.Slice(list, less by name): insertion of each entry at its place.
RECURSIVE InsertByName(_, _)
InsertByName(sorted, x) ==
  IF sorted = << >> THEN << x >>
  ELSE IF StrLess(x.name, Head(sorted).name) THEN << x >> \o sorted
  ELSE << Head(sorted) >> \o InsertByName(Tail(sorted), x)

\* groupByExt without its sort: the list stays in the order range gave.
SortByNameNot(list) == list

RECURSIVE SortByName(_)
SortByName(list) ==
  IF list = << >> THEN << >>
  ELSE InsertByName(SortByName(SubSeq(list, 1, Len(list) - 1)), list[Len(list)])

\* groupByExt: order is the order in which range visits the keys of images.
\* A missing key of the result reads as the empty list, as in Go.
groupByExt(images, order) ==
  LET exts == {ToLower(Ext(n)) : n \in DOMAIN images}
      appended(ext) ==
        LET mine == SelectSeq(order, LAMBDA n : ToLower(Ext(n)) = ext)
        IN  [k \in 1..Len(mine) |-> [name |-> mine[k], path |-> images[mine[k]]]]
  IN  [ext \in exts |-> SortByName(appended(ext))]

GroupOf(groups, ext) == IF ext \in DOMAIN groups THEN groups[ext] ELSE << >>

\* sort.Strings
RECURSIVE InsertStr(_, _)
InsertStr(sorted, x) ==
  IF sorted = << >> THEN << x >>
  ELSE IF StrLess(x, Head(sorted)) THEN << x >> \o sorted
  ELSE << Head(sorted) >> \o InsertStr(Tail(sorted), x)

RECURSIVE SortStrings(_)
SortStrings(list) ==
  IF list = << >> THEN << >>
  ELSE InsertStr(SortStrings(SubSeq(list, 1, Len(list) - 1)), list[Len(list)])

\* The orders in which range may visit a set of keys.
Orders(S) ==
  {o \in [1..Cardinality(S) -> S] : \A a, b \in 1..Cardinality(S) : a # b => o[a] # o[b]}

ImageInfo(e) == [Name |-> e.name, Path |-> e.path]

EmptyResult ==
  [Matched |-> << >>, Different |-> << >>, OnlyIn1 |-> << >>, OnlyIn2 |-> << >>,
   Skipped |-> << >>]

\* ------------------------------------------------------------------- state
VARIABLES
  images1, images2,      \* the two filename -> path mappings of the call
  hasLibreOffice,        \* the cached answer of the capability probe
  convertPNG,            \* the flag --convert-png runDiff passes to the call
  stable,                \* whether the oracle answers a pair the same way every time
  oracle,                \* the answers given so far: a set of <<path1, path2, answer>>
  content,               \* the content of each image, when the oracle goes by it
  pc,                    \* where MatchImageSets is
  tempDir,               \* the temporary directory: "none", "exists" or "removed"
  groups1, groups2, sortedExts, gi,
  list1, list2, matched1, matched2, i, j,
  unmatched1, unmatched2,
  result,                \* the MatchResult being built
  retResult, retErr,     \* what the call returned: << >> is nil
  scan,                  \* the verdicts of the row of phase 1 scanned last
  invoked,               \* the pairs compare was called on, with the phase
  hardErr,               \* the phases in which compare returned an error
  calls,                 \* the calls of compare in order: <<phase, path1, path2>>
  last,                  \* what the call of compare made last returned
  reported,              \* isDifferent of the comparison of each DiffPair
  files,                 \* the artifact files there are
  run, first,            \* the number of the call and what the call before returned
  cpc, cImage1, cRun, cParsed, cRet,  \* one call of compare, step by step
  map1, map2,            \* the path mappings BuildPathMapping returned
  rpc,                   \* where ReplaceBase64Images is
  rContent, rImages,     \* its arguments: the markdown content and the images
  rPieces,               \* the pieces the content was made of
  rGroups, rCounters,    \* groups and counters
  rRest, rResult         \* rest and result

mvars ==
  << images1, images2, hasLibreOffice, convertPNG, stable, oracle, content, pc, tempDir, groups1, groups2,
     sortedExts, gi, list1, list2, matched1, matched2, i, j, unmatched1, unmatched2,
     result, retResult, retErr, scan, invoked, hardErr, calls, last, reported,
     run, first >>
cvars == << cpc, cImage1, cRun, cParsed, cRet >>
maps == << map1, map2 >>
rvars == << rpc, rContent, rImages, rPieces, rGroups, rCounters, rRest, rResult >>
pvars == << maps, rvars >>
vars == << mvars, cvars, files, pvars >>

\* ------------------------------------------------------------------ inputs
\* The file names of word/media the model draws from.
Names ==
  { << "a", ".", "p", "n", "g" >>, << "b", ".", "p", "n", "g" >>,
    << "c", ".", "P", "N", "G" >>, << "d", ".", "w", "m", "f" >>,
    << "e" >>, << "f", ".", "t", "x", "t" >> }

\* The file names the twice-made call draws from.
NamesDet ==
  { << "a", ".", "p", "n", "g" >>, << "b", ".", "p", "n", "g" >>,
    << "c", ".", "P", "N", "G" >>, << "d", ".", "w", "m", "f" >> }

\* The directories the two documents were extracted to, the directory of the
\* diff images and the temporary directory of the call.
Dir1 == << "1" >>
Dir2 == << "2" >>
DiffImgsDir == << "d" >>
TempDirName == << "t" >>

\* docx.Extract: the images of a side, each file name with its path.
Extracted(dir, names) == [n \in names |-> Join(dir, n)]

\* The answers the oracle may give for a pair now.
AnswersFor(path1, path2) ==
  LET given == {t \in oracle : t[1] = path1 /\ t[2] = path2}
  IN  IF content # << >>
        THEN {IF content[path1] = content[path2] THEN "identical" ELSE "differ"}
      ELSE IF ~stable THEN Answers
      ELSE IF given # {} THEN {t[3] : t \in given}
      ELSE StableAnswers

Remember(path1, path2, answer) ==
  IF stable THEN oracle \cup {<< path1, path2, answer >>} ELSE oracle

\* Nothing of internal/markdown has run.
ReplaceIdle ==
  /\ rpc = "idle"
  /\ rContent = << >>
  /\ rImages = << >>
  /\ rPieces = << >>
  /\ rGroups = << >>
  /\ rCounters = << >>
  /\ rRest = << >>
  /\ rResult = << >>

MarkdownIdle ==
  /\ map1 = << >>
  /\ map2 = << >>
  /\ ReplaceIdle

CompareIdle ==
  /\ cpc = "idle"
  /\ cImage1 = << >>
  /\ cRun = << >>
  /\ cParsed = << >>
  /\ cRet = << >>

InitCall ==
  /\ pc = "start"
  /\ tempDir = "none"
  /\ groups1 = << >>
  /\ groups2 = << >>
  /\ sortedExts = << >>
  /\ gi = 1
  /\ list1 = << >>
  /\ list2 = << >>
  /\ matched1 = {}
  /\ matched2 = {}
  /\ i = 1
  /\ j = 1
  /\ unmatched1 = << >>
  /\ unmatched2 = << >>
  /\ result = EmptyResult
  /\ retResult = << >>
  /\ retErr = FALSE
  /\ scan = [i |-> 0, v |-> << >>]
  /\ invoked = {}
  /\ hardErr = {}
  /\ calls = << >>
  /\ last = << >>
  /\ reported = << >>

\* The default of the flag --convert-png (main.go:23).
ConvertPNGDefault == TRUE

InputsFrom(names) ==
  /\ \E n1, n2 \in SUBSET names :
       /\ Cardinality(n1) <= MaxPerSide
       /\ Cardinality(n2) <= MaxPerSide
       /\ images1 = Extracted(Dir1, n1)
       /\ images2 = Extracted(Dir2, n2)
  /\ hasLibreOffice \in BOOLEAN
  /\ convertPNG = ConvertPNGDefault
  /\ oracle = {}
  /\ content = << >>
  /\ run = 1
  /\ first = << >>

Init ==
  /\ InputsFrom(Names)
  /\ stable = FALSE
  /\ files = {}
  /\ InitCall
  /\ CompareIdle
  /\ MarkdownIdle

\* ------------------------------------------------- pieces of matchExtGroup
\* Phase 1 without the test of matched2[j].
IsMatchedNever(matched, idx) == FALSE

\* Phase 1 that tests matched1[j] where matched2[j] is meant.
IsMatchedSide1(matched, idx) == idx \in matched1

\* matched2[j] of a map[int]bool: a missing key reads false.
IsMatched(matched, idx) == idx \in matched

\* Phase 1 without the test of err: compare returns isDifferent = false with
\* an error, so the pair is matched.
Phase1OutcomeNoErrCheck(o) == IF ~o.isDifferent THEN "match" ELSE "next"

\* What phase 1 does with the outcome of a comparison (lines 221-232):
\* "continue" after an error, "match" (and break) when not different,
\* "next" otherwise.
Phase1Outcome(o) ==
  IF o.err THEN "continue"
  ELSE IF ~o.isDifferent THEN "match"
  ELSE "next"

RecordMatch(res, img1, img2) ==
  [res EXCEPT !.Matched =
     Append(@, [Image1 |-> ImageInfo(img1), Image2 |-> ImageInfo(img2)])]

\* Collect unmatched without the test of matched: every entry is left over.
CollectAll(list, matched) == list

\* Collect unmatched (lines 237-247): the entries whose index is not matched,
\* in the order of the list.
RECURSIVE CollectFrom(_, _, _)
CollectFrom(list, matched, idx) ==
  IF idx > Len(list) THEN << >>
  ELSE (IF idx \in matched THEN << >> ELSE << list[idx] >>)
       \o CollectFrom(list, matched, idx + 1)

CollectUnmatched(list, matched) == CollectFrom(list, matched, 1)

\* minLen (lines 250-253)
MinLen(u1, u2) == IF Len(u2) < Len(u1) THEN Len(u2) ELSE Len(u1)

\* finalDiffPath (lines 264-271)
FinalDiffPath(img1, img2, o) ==
  IF o.isDifferent /\ o.diffPath # << >>
    THEN LET ext   == Ext(img1.name)
             base1 == TrimSuffix(img1.name, ext)
             base2 == TrimSuffix(img2.name, ext)
         IN  Join(DiffImgsDir, base1 \o << "-" >> \o base2 \o ext)
    ELSE << >>

\* Phase 2 that records a pair compared as not different as a MatchedPair.
RecordDiffReclassify(res, img1, img2, o) ==
  IF o.isDifferent
    THEN [res EXCEPT !.Different =
            Append(@, [Image1 |-> ImageInfo(img1), Image2 |-> ImageInfo(img2),
                       PSNR |-> o.psnr, DiffPath |-> FinalDiffPath(img1, img2, o)])]
    ELSE RecordMatch(res, img1, img2)

\* The DiffPair of phase 2 (lines 273-278)
RecordDiff(res, img1, img2, o) ==
  [res EXCEPT !.Different =
     Append(@, [Image1 |-> ImageInfo(img1), Image2 |-> ImageInfo(img2),
                PSNR |-> o.psnr, DiffPath |-> FinalDiffPath(img1, img2, o)])]

\* Phase 3 with loops that start one index late.
RecordOnlyOffByOne(res, u1, u2) ==
  LET minLen == MinLen(u1, u2) + 1
  IN  [res EXCEPT
         !.OnlyIn1 = @ \o [k \in 1..(Len(u1) - minLen) |-> ImageInfo(u1[minLen + k])],
         !.OnlyIn2 = @ \o [k \in 1..(Len(u2) - minLen) |-> ImageInfo(u2[minLen + k])]]

\* Phase 3 (lines 282-287)
RecordOnly(res, u1, u2) ==
  LET minLen == MinLen(u1, u2)
  IN  [res EXCEPT
         !.OnlyIn1 = @ \o [k \in 1..(Len(u1) - minLen) |-> ImageInfo(u1[minLen + k])],
         !.OnlyIn2 = @ \o [k \in 1..(Len(u2) - minLen) |-> ImageInfo(u2[minLen + k])]]

\* The skipped group without the loop over list2.
RecordSkippedList1Only(res, l1, l2) ==
  [res EXCEPT !.Skipped = @ \o [k \in 1..Len(l1) |-> ImageInfo(l1[k])]]

\* The group that cannot be compared (lines 193-198)
RecordSkipped(res, l1, l2) ==
  [res EXCEPT !.Skipped =
     @ \o [k \in 1..Len(l1) |-> ImageInfo(l1[k])]
       \o [k \in 1..Len(l2) |-> ImageInfo(l2[k])]]

\* os.Rename(tmpDiffPath, finalDiffPath) of phase 2 (lines 265-271), its
\* error ignored: nothing happens when there is no file to rename.
Rename(fs, from, to) ==
  IF to # << >> /\ from \in fs THEN (fs \ {from}) \cup {to} ELSE fs

\* A deferred call that removes nothing.
RemoveNothing(fs, dir) == fs

\* os.RemoveAll(dir): no file under dir is left.
RemoveAll(fs, dir) == {f \in fs : ~HasPrefixAt(f, dir \o << "/" >>, 1)}

\* What is kept of a call of compare.
Outcome(phase, image1, outputDir, o) ==
  [phase |-> phase, image1 |-> image1, outputDir |-> outputDir,
   isDifferent |-> o.isDifferent, diffPath |-> o.diffPath, err |-> o.err]

Verdict(o) == IF o.err THEN "err" ELSE IF o.isDifferent THEN "diff" ELSE "same"

Logged(row, v) ==
  IF scan.i = row THEN [scan EXCEPT !.v = Append(@, v)] ELSE [i |-> row, v |-> << v >>]

\* -------------------------------------------------------- BuildPathMapping
\* The base names of the two documents: docxBaseName(file1), docxBaseName(file2).
Doc1Base == << "A" >>
Doc2Base == << "B" >>

\* m[key] = value of a Go map.
Put(m, key, value) ==
  [x \in DOMAIN m \cup {key} |-> IF x = key THEN value ELSE m[x]]

\* The assignments of a sequence of <<key, value>>, in order.
RECURSIVE PutAll(_, _)
PutAll(m, kvs) ==
  IF kvs = << >> THEN m
  ELSE PutAll(Put(m, Head(kvs)[1], Head(kvs)[2]), Tail(kvs))

Prefixed(docBase, name) == docBase \o << "/" >> \o name

\* map2 with the name of the image of the second document for a matched pair.
BuildPathMapping2OwnName(res, doc2Base) ==
  PutAll(<< >>,
    [k \in 1..Len(res.Matched) |->
       << res.Matched[k].Image2.Path, res.Matched[k].Image2.Name >>]
    \o [k \in 1..Len(res.Different) |->
       << res.Different[k].Image2.Path, Prefixed(doc2Base, res.Different[k].Image2.Name) >>]
    \o [k \in 1..Len(res.OnlyIn2) |->
       << res.OnlyIn2[k].Path, Prefixed(doc2Base, res.OnlyIn2[k].Name) >>]
    \o [k \in 1..Len(res.Skipped) |-> << res.Skipped[k].Path, res.Skipped[k].Name >>])

\* map1 of BuildPathMapping: the loops over Matched, Different, OnlyIn1 and
\* Skipped, in this order.
BuildPathMapping1(res, doc1Base) ==
  PutAll(<< >>,
    [k \in 1..Len(res.Matched) |->
       << res.Matched[k].Image1.Path, res.Matched[k].Image1.Name >>]
    \o [k \in 1..Len(res.Different) |->
       << res.Different[k].Image1.Path, Prefixed(doc1Base, res.Different[k].Image1.Name) >>]
    \o [k \in 1..Len(res.OnlyIn1) |->
       << res.OnlyIn1[k].Path, Prefixed(doc1Base, res.OnlyIn1[k].Name) >>]
    \o [k \in 1..Len(res.Skipped) |-> << res.Skipped[k].Path, res.Skipped[k].Name >>])

\* map2 of BuildPathMapping: the loops over Matched, Different, OnlyIn2 and
\* Skipped, in this order.
BuildPathMapping2(res, doc2Base) ==
  PutAll(<< >>,
    [k \in 1..Len(res.Matched) |->
       << res.Matched[k].Image2.Path, res.Matched[k].Image1.Name >>]
    \o [k \in 1..Len(res.Different) |->
       << res.Different[k].Image2.Path, Prefixed(doc2Base, res.Different[k].Image2.Name) >>]
    \o [k \in 1..Len(res.OnlyIn2) |->
       << res.OnlyIn2[k].Path, Prefixed(doc2Base, res.OnlyIn2[k].Name) >>]
    \o [k \in 1..Len(res.Skipped) |-> << res.Skipped[k].Path, res.Skipped[k].Name >>])

\* ------------------------------------------------------ ReplaceBase64Images
\* Go's s[a:b], strings.Index and strings.LastIndex, positions counted from 0
\* and -1 for no occurrence.
Slice(s, a, b) == SubSeq(s, a + 1, b)

Index(s, sub) ==
  LET at == {k \in 1..(Len(s) + 1) : HasPrefixAt(s, sub, k)}
  IN  IF at = {} THEN -1 ELSE (CHOOSE k \in at : \A m \in at : k <= m) - 1

LastIndex(s, sub) ==
  LET at == {k \in 1..(Len(s) + 1) : HasPrefixAt(s, sub, k)}
  IN  IF at = {} THEN -1 ELSE (CHOOSE k \in at : \A m \in at : m <= k) - 1

\* mimeToExts (lines 23-34)
mimeToExts ==
  << [mime |-> << "p", "n", "g" >>, exts |-> << Png >>],
     [mime |-> << "j", "p", "e", "g" >>, exts |-> << Jpg, Jpeg >>],
     [mime |-> << "g", "i", "f" >>, exts |-> << Gif >>],
     [mime |-> << "b", "m", "p" >>, exts |-> << Bmp >>],
     [mime |-> << "t", "i", "f", "f" >>, exts |-> << Tiff, Tif >>],
     [mime |-> << "w", "e", "b", "p" >>, exts |-> << Webp >>],
     [mime |-> << "x", "-", "e", "m", "f" >>, exts |-> << Emf >>],
     [mime |-> << "x", "-", "w", "m", "f" >>, exts |-> << Wmf >>],
     [mime |-> << "s", "v", "g", "+", "x", "m", "l" >>, exts |-> << Svg >>],
     [mime |-> << "v", "n", "d", ".", "m", "s", "-", "p", "h", "o", "t", "o" >>,
      exts |-> << << ".", "w", "d", "p" >> >>] >>

\* groupImagesByExt (lines 51-65): the paths of each extension, the names
\* sorted by sort.Strings; order is the order in which range visits the keys.
groupImagesByExt(images, order) ==
  LET exts == {ToLower(Ext(n)) : n \in DOMAIN images}
      names(ext) == SortStrings(SelectSeq(order, LAMBDA n : ToLower(Ext(n)) = ext))
  IN  [ext \in exts |-> [k \in 1..Len(names(ext)) |-> images[names(ext)[k]]]]

\* resolveExt (lines 68-79): "" is << >>.
resolveExt(mimeSubType, groups) ==
  LET rows == {k \in 1..Len(mimeToExts) : mimeToExts[k].mime = mimeSubType}
  IN  IF rows = {} THEN << >>
      ELSE LET exts == mimeToExts[CHOOSE k \in rows : TRUE].exts
               have == {k \in 1..Len(exts) : exts[k] \in DOMAIN groups}
           IN  IF have = {} THEN << >>
               ELSE exts[CHOOSE k \in have : \A m \in have : k <= m]

Marker == << "]", "(", "d", "a", "t", "a", ":", "i", "m", "a", "g", "e", "/" >>
ImgOpen == << "!", "[" >>
DataPrefix == << "d", "a", "t", "a", ":", "i", "m", "a", "g", "e", "/" >>

\* counters[ext] of a map[string]int: a missing key reads 0.
Counter(counters, ext) == IF ext \in DOMAIN counters THEN counters[ext] ELSE 0

\* One iteration of the loop of ReplaceBase64Images (lines 90-139): the new
\* rest, result and counters, and whether the loop goes on.
ReplaceIteration(rest, built, counters, groups) ==
  LET idx == Index(rest, Marker)
  IN  IF idx < 0
        THEN [rest |-> rest, result |-> built \o rest, counters |-> counters, more |-> FALSE]
      ELSE
      LET imgStart == LastIndex(Slice(rest, 0, idx), ImgOpen)
      IN  IF imgStart < 0
            THEN [rest |-> Slice(rest, idx + Len(Marker), Len(rest)),
                  result |-> built \o Slice(rest, 0, idx + Len(Marker)),
                  counters |-> counters, more |-> TRUE]
          ELSE
          LET altText   == Slice(rest, imgStart + 2, idx)
              dataStart == idx + 2
              found     == Index(Slice(rest, dataStart, Len(rest)), << ")" >>)
          IN  IF found < 0
                THEN [rest |-> rest, result |-> built \o rest, counters |-> counters,
                      more |-> FALSE]
              ELSE
              LET closeIdx == found + dataStart
                  dataURI  == Slice(rest, dataStart, closeIdx)
                  semiIdx  == Index(dataURI, << ";" >>)
                  mimeSubType ==
                    IF semiIdx > 0 /\ HasPrefixAt(dataURI, DataPrefix, 1)
                      THEN Slice(dataURI, Len(DataPrefix), semiIdx) ELSE << >>
                  ext  == resolveExt(mimeSubType, groups)
                  n    == Counter(counters, ext)
                  head == built \o Slice(rest, 0, imgStart)
                  tail == Slice(rest, closeIdx + 1, Len(rest))
              IN  IF ext # << >> /\ n < Len(groups[ext])
                    THEN [rest |-> tail,
                          result |-> head \o ImgOpen \o altText \o << "]", "(" >>
                                       \o groups[ext][n + 1] \o << ")" >>,
                          counters |-> Put(counters, ext, n + 1), more |-> TRUE]
                    ELSE [rest |-> tail,
                          result |-> head \o Slice(rest, imgStart, closeIdx + 1),
                          counters |-> counters, more |-> TRUE]

\* ------------------------------------------------ MatchImageSets, by steps
inputs == << images1, images2, hasLibreOffice, convertPNG, stable, content, run, first >>
groupVars == << list1, list2, matched1, matched2, i, j, unmatched1, unmatched2 >>
history == << scan, invoked, hardErr, calls, last, reported >>
returned == << retResult, retErr >>

\* os.MkdirTemp succeeds (lines 164, 168).
MkdirTemp ==
  /\ pc = "start"
  /\ tempDir' = "exists"
  /\ pc' = "group1"
  /\ UNCHANGED << pvars, inputs, oracle, groups1, groups2, sortedExts, gi, groupVars, result,
                  returned, history, cvars, files >>

\* os.MkdirTemp fails (lines 165-167).
MkdirTempFails ==
  /\ pc = "start"
  /\ retResult' = << >>
  /\ retErr' = TRUE
  /\ pc' = "done"
  /\ UNCHANGED << pvars, inputs, oracle, tempDir, groups1, groups2, sortedExts, gi, groupVars,
                  result, history, cvars, files >>

\* groups1 := groupByExt(images1) (line 170)
Group1 ==
  /\ pc = "group1"
  /\ \E order \in Orders(DOMAIN images1) : groups1' = groupByExt(images1, order)
  /\ pc' = "group2"
  /\ UNCHANGED << pvars, inputs, oracle, tempDir, groups2, sortedExts, gi, groupVars, result,
                  returned, history, cvars, files >>

\* groups2 := groupByExt(images2) (line 171)
Group2 ==
  /\ pc = "group2"
  /\ \E order \in Orders(DOMAIN images2) : groups2' = groupByExt(images2, order)
  /\ pc' = "exts"
  /\ UNCHANGED << pvars, inputs, oracle, tempDir, groups1, sortedExts, gi, groupVars, result,
                  returned, history, cvars, files >>

\* allExts, sortedExts and the empty result (lines 173-186)
SortExts ==
  /\ pc = "exts"
  /\ \E order \in Orders(DOMAIN groups1 \cup DOMAIN groups2) :
       sortedExts' = SortStrings(order)
  /\ gi' = 1
  /\ result' = EmptyResult
  /\ pc' = "loop"
  /\ UNCHANGED << pvars, inputs, oracle, tempDir, groups1, groups2, groupVars, returned,
                  history, cvars, files >>

\* One group that cannot be compared (lines 188-200)
SkipGroup ==
  /\ pc = "loop"
  /\ gi <= Len(sortedExts)
  /\ LET ext == sortedExts[gi]
     IN  /\ ~canCompareExt(ext, hasLibreOffice)
         /\ list1' = GroupOf(groups1, ext)
         /\ list2' = GroupOf(groups2, ext)
         /\ result' = RecordSkipped(result, list1', list2')
  /\ gi' = gi + 1
  /\ UNCHANGED << pvars, inputs, oracle, pc, tempDir, groups1, groups2, sortedExts, matched1,
                  matched2, i, j, unmatched1, unmatched2, returned, history, cvars, files >>

\* matchExtGroup is entered for a group that can be compared (lines 188-192,
\* 202, 211-212).
BeginMatch ==
  /\ pc = "loop"
  /\ gi <= Len(sortedExts)
  /\ LET ext == sortedExts[gi]
     IN  /\ canCompareExt(ext, hasLibreOffice)
         /\ list1' = GroupOf(groups1, ext)
         /\ list2' = GroupOf(groups2, ext)
  /\ matched1' = {}
  /\ matched2' = {}
  /\ i' = 1
  /\ j' = 1
  /\ unmatched1' = << >>
  /\ unmatched2' = << >>
  /\ scan' = [i |-> 0, v |-> << >>]
  /\ pc' = "phase1"
  /\ UNCHANGED << pvars, inputs, oracle, tempDir, groups1, groups2, sortedExts, gi, result,
                  returned, invoked, hardErr,
                  calls, last, reported, cvars, files >>

\* Phase 1, an index of list2 that is matched already (lines 217-219)
P1Skip ==
  /\ pc = "phase1"
  /\ i <= Len(list1)
  /\ j <= Len(list2)
  /\ IsMatched(matched2, j)
  /\ j' = j + 1
  /\ scan' = Logged(i, "taken")
  /\ UNCHANGED << pvars, inputs, oracle, pc, tempDir, groups1, groups2, sortedExts, gi, list1,
                  list2, matched1, matched2, i, unmatched1, unmatched2, result, returned,
                  invoked, hardErr,
                  calls, last, reported, cvars, files >>

\* Phase 1, one comparison (lines 220-232)
P1Compare ==
  /\ pc = "phase1"
  /\ i <= Len(list1)
  /\ j <= Len(list2)
  /\ ~IsMatched(matched2, j)
  /\ LET img1 == list1[i]
         img2 == list2[j]
     IN  \E answer \in AnswersFor(img1.path, img2.path) :
           LET o  == compare(img1.path, img2.path, TempDirName, answer)
               to == Phase1Outcome(o)
           IN  /\ oracle' = Remember(img1.path, img2.path, answer)
               /\ invoked' = invoked \cup {<< 1, img1.path, img2.path >>}
               /\ calls' = Append(calls, << 1, img1.path, img2.path >>)
               /\ last' = << Outcome(1, img1.path, TempDirName, o) >>
               /\ files' = compareFiles(files, img1.path, TempDirName, answer)
               /\ hardErr' = IF o.err THEN hardErr \cup {1} ELSE hardErr
               /\ scan' = Logged(i, Verdict(o))
               /\ IF to = "match"
                    THEN /\ matched1' = matched1 \cup {i}
                         /\ matched2' = matched2 \cup {j}
                         /\ result' = RecordMatch(result, img1, img2)
                         /\ i' = i + 1
                         /\ j' = 1
                    ELSE /\ j' = j + 1
                         /\ UNCHANGED << matched1, matched2, result, i >>
  /\ UNCHANGED << pvars, inputs, pc, tempDir, groups1, groups2, sortedExts, gi, list1, list2,
                  unmatched1, unmatched2, returned, reported, cvars >>

\* Phase 1, list2 is exhausted for this index of list1 (lines 215-216)
P1NextRow ==
  /\ pc = "phase1"
  /\ i <= Len(list1)
  /\ j > Len(list2)
  /\ i' = i + 1
  /\ j' = 1
  /\ UNCHANGED << pvars, inputs, oracle, pc, tempDir, groups1, groups2, sortedExts, gi, list1,
                  list2, matched1, matched2, unmatched1, unmatched2, result, returned,
                  history, cvars, files >>

\* Phase 1 ends: the unmatched entries are collected (lines 236-253).
P1End ==
  /\ pc = "phase1"
  /\ i > Len(list1)
  /\ unmatched1' = CollectUnmatched(list1, matched1)
  /\ unmatched2' = CollectUnmatched(list2, matched2)
  /\ i' = 1
  /\ pc' = "phase2"
  /\ UNCHANGED << pvars, inputs, oracle, tempDir, groups1, groups2, sortedExts, gi, list1, list2,
                  matched1, matched2, j, result, returned, history, cvars, files >>

\* Phase 2, one comparison (lines 254-279); an error ends the call (lines
\* 259-261, 202-204) and the deferred RemoveAll runs.
P2Compare ==
  /\ pc = "phase2"
  /\ i <= MinLen(unmatched1, unmatched2)
  /\ LET img1 == unmatched1[i]
         img2 == unmatched2[i]
     IN  \E answer \in AnswersFor(img1.path, img2.path) :
           LET o == compare(img1.path, img2.path, DiffImgsDir, answer)
               fs == compareFiles(files, img1.path, DiffImgsDir, answer)
           IN  /\ oracle' = Remember(img1.path, img2.path, answer)
               /\ invoked' = invoked \cup {<< 2, img1.path, img2.path >>}
               /\ calls' = Append(calls, << 2, img1.path, img2.path >>)
               /\ last' = << Outcome(2, img1.path, DiffImgsDir, o) >>
               /\ hardErr' = IF o.err THEN hardErr \cup {2} ELSE hardErr
               /\ IF o.err
                    THEN /\ retResult' = << >>
                         /\ retErr' = TRUE
                         /\ tempDir' = "removed"
                         /\ files' = RemoveAll(fs, TempDirName)
                         /\ pc' = "done"
                         /\ UNCHANGED << result, i, reported >>
                    ELSE /\ result' = RecordDiff(result, img1, img2, o)
                         /\ reported' = Append(reported, o.isDifferent)
                         /\ files' = Rename(fs, o.diffPath, FinalDiffPath(img1, img2, o))
                         /\ i' = i + 1
                         /\ UNCHANGED << returned, tempDir, pc >>
  /\ UNCHANGED << pvars, inputs, groups1, groups2, sortedExts, gi, list1, list2, matched1,
                  matched2, j, unmatched1, unmatched2, scan, cvars >>

\* The return of matchExtGroup after which the loop takes the same group again.
P2EndSameGroup ==
  /\ pc = "phase2"
  /\ i > MinLen(unmatched1, unmatched2)
  /\ result' = RecordOnly(result, unmatched1, unmatched2)
  /\ pc' = "loop"
  /\ UNCHANGED << pvars, inputs, oracle, tempDir, groups1, groups2, sortedExts, gi,
                  groupVars, returned, history, cvars, files >>

\* Phase 3 and the return of matchExtGroup (lines 281-289)
P2End ==
  /\ pc = "phase2"
  /\ i > MinLen(unmatched1, unmatched2)
  /\ result' = RecordOnly(result, unmatched1, unmatched2)
  /\ gi' = gi + 1
  /\ pc' = "loop"
  /\ UNCHANGED << pvars, inputs, oracle, tempDir, groups1, groups2, sortedExts, groupVars,
                  returned, history, cvars, files >>

\* return result, nil (line 207), and the deferred RemoveAll
ReturnResult ==
  /\ pc = "loop"
  /\ gi > Len(sortedExts)
  /\ retResult' = << result >>
  /\ retErr' = FALSE
  /\ tempDir' = "removed"
  /\ files' = RemoveAll(files, TempDirName)
  /\ pc' = "done"
  /\ UNCHANGED << pvars, inputs, oracle, groups1, groups2, sortedExts, gi, groupVars, result,
                  history, cvars >>

\* map1, map2 := markdown.BuildPathMapping(matchResult, doc1Base, doc2Base) of
\* runDiff (main.go:168), after a call that returned a result.
BuildPathMappingStep ==
  /\ pc = "done"
  /\ ~retErr
  /\ retResult # << >>
  /\ map1' = BuildPathMapping1(retResult[1], Doc1Base)
  /\ map2' = BuildPathMapping2(retResult[1], Doc2Base)
  /\ pc' = "mapped"
  /\ UNCHANGED << inputs, oracle, tempDir, groups1, groups2, sortedExts, gi, groupVars,
                  result, returned, history, cvars, files, rvars >>

Next ==
  \/ MkdirTemp
  \/ MkdirTempFails
  \/ Group1
  \/ Group2
  \/ SortExts
  \/ SkipGroup
  \/ BeginMatch
  \/ P1Skip
  \/ P1Compare
  \/ P1NextRow
  \/ P1End
  \/ P2Compare
  \/ P2End
  \/ ReturnResult
  \/ BuildPathMappingStep

Spec == Init /\ [][Next]_vars

\* ------------------------------------------------------- the call, twice
\* The call is made again on the same inputs, with an oracle that answers a
\* pair as it did before; what the first call returned is kept.
Rerun ==
  /\ pc = "done"
  /\ run = 1
  /\ run' = 2
  /\ first' = << [result |-> retResult, err |-> retErr, tempDir |-> tempDir] >>
  /\ pc' = "start"
  /\ tempDir' = "none"
  /\ groups1' = << >>
  /\ groups2' = << >>
  /\ sortedExts' = << >>
  /\ gi' = 1
  /\ list1' = << >>
  /\ list2' = << >>
  /\ matched1' = {}
  /\ matched2' = {}
  /\ i' = 1
  /\ j' = 1
  /\ unmatched1' = << >>
  /\ unmatched2' = << >>
  /\ result' = EmptyResult
  /\ retResult' = << >>
  /\ retErr' = FALSE
  /\ scan' = [i |-> 0, v |-> << >>]
  /\ invoked' = {}
  /\ hardErr' = {}
  /\ calls' = << >>
  /\ last' = << >>
  /\ reported' = << >>
  /\ UNCHANGED << pvars, images1, images2, hasLibreOffice, convertPNG, stable, oracle, content, cvars,
                  files >>

InitDet ==
  /\ InputsFrom(NamesDet)
  /\ stable = TRUE
  /\ files = {}
  /\ InitCall
  /\ CompareIdle
  /\ MarkdownIdle

NextDet == Next \/ Rerun

SpecDet == InitDet /\ [][NextDet]_vars

\* ------------------------------------- the call on names that hold a '-'
\* File names of word/media with a '-' in the name, and one of a group that
\* is compared only with the capability.
NamesDash ==
  { << "a", ".", "p", "n", "g" >>, << "a", "-", "b", ".", "p", "n", "g" >>,
    << "b", "-", "a", ".", "p", "n", "g" >>, << "d", ".", "w", "m", "f" >> }

InitDash ==
  /\ InputsFrom(NamesDash)
  /\ stable = FALSE
  /\ files = {}
  /\ InitCall
  /\ CompareIdle
  /\ MarkdownIdle

SpecDash == InitDash /\ [][Next]_vars

\* ------------------------------------- the call with an oracle by content
\* File names of word/media for the oracle that goes by content and the
\* contents an image may have; the second document may hold one image more.
NamesEq ==
  { << "a", ".", "p", "n", "g" >>, << "b", ".", "p", "n", "g" >>,
    << "x", ".", "p", "n", "g" >>, << "e" >> }
Contents == {"p", "q"}

\* The oracle reports two images as not different exactly when their contents
\* are the same, and it never fails.
InitEq ==
  /\ \E n1, n2 \in SUBSET NamesEq :
       /\ Cardinality(n1) <= MaxPerSide
       /\ Cardinality(n2) <= MaxPerSide + 1
       /\ images1 = Extracted(Dir1, n1)
       /\ images2 = Extracted(Dir2, n2)
  /\ hasLibreOffice = FALSE
  /\ convertPNG = ConvertPNGDefault
  /\ oracle = {}
  /\ content \in [{images1[n] : n \in DOMAIN images1} \cup {images2[n] : n \in DOMAIN images2}
                    -> Contents]
  /\ content # << >>
  /\ run = 1
  /\ first = << >>
  /\ stable = TRUE
  /\ files = {}
  /\ InitCall
  /\ CompareIdle
  /\ MarkdownIdle

SpecEq == InitEq /\ [][Next]_vars

\* ------------------------------------------ the call with the flag given
\* File names of word/media with vector images.
NamesFlag ==
  { << "a", ".", "p", "n", "g" >>, << "b", ".", "p", "n", "g" >>,
    << "d", ".", "w", "m", "f" >>, << "e", ".", "e", "m", "f" >> }

\* runDiff called with --convert-png=true or --convert-png=false.
InitFlag ==
  /\ \E n1, n2 \in SUBSET NamesFlag :
       /\ Cardinality(n1) <= MaxPerSide
       /\ Cardinality(n2) <= MaxPerSide
       /\ images1 = Extracted(Dir1, n1)
       /\ images2 = Extracted(Dir2, n2)
  /\ hasLibreOffice \in BOOLEAN
  /\ convertPNG \in BOOLEAN
  /\ oracle = {}
  /\ content = << >>
  /\ run = 1
  /\ first = << >>
  /\ stable = TRUE
  /\ files = {}
  /\ InitCall
  /\ CompareIdle
  /\ MarkdownIdle

SpecFlag == InitFlag /\ [][Next]_vars

\* ------------------------------------------- the call that runs to its end
\* File names of word/media of one group that is compared, and one that is
\* skipped.
NamesLive ==
  { << "a", ".", "p", "n", "g" >>, << "b", ".", "p", "n", "g" >>,
    << "c", ".", "P", "N", "G" >>, << "e" >> }

InitLive ==
  /\ \E n1, n2 \in SUBSET NamesLive :
       /\ Cardinality(n1) <= MaxPerSide
       /\ Cardinality(n2) <= MaxPerSide
       /\ images1 = Extracted(Dir1, n1)
       /\ images2 = Extracted(Dir2, n2)
  /\ hasLibreOffice = FALSE
  /\ convertPNG = ConvertPNGDefault
  /\ oracle = {}
  /\ content = << >>
  /\ run = 1
  /\ first = << >>
  /\ stable = FALSE
  /\ files = {}
  /\ InitCall
  /\ CompareIdle
  /\ MarkdownIdle

\* The call is one sequential computation: every call of the oracle returns
\* and the step that can be taken is taken.
SpecLive == InitLive /\ [][Next]_vars /\ WF_vars(Next)

\* ------------------------------------------------ one call of compare alone
\* The pieces an oracle report is made of.
Fragments ==
  { << "a", "l", "l", ":", " ", "1", ".", "0", "\n" >>,
    << "r", "e", "d", ":", " ", "0", ".", "9", "9", "9", "\n" >>,
    << "B", "l", "u", "e", ":", " ", "i", "n", "f", "\n" >>,
    << "g", "r", "e", "e", "n", ":", "3", "5", ".", "5", "\n" >>,
    << "a", "l", "l", ":", " ", "1", ".", "2", ".", "3", "\n" >>,
    << "x", " ", "0", " ", "\n" >>,
    << "x", "\n" >> }

RECURSIVE Reports(_)
Reports(n) ==
  IF n = 0 THEN {<< >>}
  ELSE Reports(n - 1) \cup {r \o f : r \in Reports(n - 1), f \in Fragments}

\* What cmd.Run() may give: no error (exit code 0), an ExitError with code 1
\* or 2, or another error. When the binary is missing nothing is written.
OracleRuns ==
  {[runErr |-> "nil", code |-> 0, wrote |-> w, output |-> r] :
       w \in BOOLEAN, r \in Reports(MaxFrags)}
    \cup {[runErr |-> "exit", code |-> c, wrote |-> w, output |-> r] :
             c \in {1, 2}, w \in BOOLEAN, r \in Reports(MaxFrags)}
    \cup {[runErr |-> "other", code |-> 0, wrote |-> FALSE, output |-> r] :
             r \in Reports(MaxFrags)}

NoCall ==
  /\ pc = "idle"
  /\ images1 = << >>
  /\ images2 = << >>
  /\ hasLibreOffice = FALSE
  /\ convertPNG = ConvertPNGDefault
  /\ stable = FALSE
  /\ oracle = {}
  /\ content = << >>
  /\ tempDir = "none"
  /\ groups1 = << >>
  /\ groups2 = << >>
  /\ sortedExts = << >>
  /\ gi = 1
  /\ list1 = << >>
  /\ list2 = << >>
  /\ matched1 = {}
  /\ matched2 = {}
  /\ i = 1
  /\ j = 1
  /\ unmatched1 = << >>
  /\ unmatched2 = << >>
  /\ result = EmptyResult
  /\ retResult = << >>
  /\ retErr = FALSE
  /\ scan = [i |-> 0, v |-> << >>]
  /\ invoked = {}
  /\ hardErr = {}
  /\ calls = << >>
  /\ last = << >>
  /\ reported = << >>
  /\ run = 1
  /\ first = << >>

InitCompare ==
  /\ NoCall
  /\ cpc = "start"
  /\ cImage1 \in {Join(Dir1, << "a", ".", "p", "n", "g" >>), Join(Dir1, << "c", ".", "P", "N", "G" >>)}
  /\ cRun = << >>
  /\ cParsed = << >>
  /\ cRet = << >>
  /\ MarkdownIdle
  /\ files \in {{}, {ArtifactPath(cImage1, DiffImgsDir)}}

\* cmd.Run() and the output it left (lines 99-105)
RunOracle ==
  /\ cpc = "start"
  /\ \E ran \in OracleRuns : cRun' = << ran >>
  /\ files' = FilesAfterRun(files, cImage1, DiffImgsDir, cRun'[1])
  /\ cpc' = "ran"
  /\ UNCHANGED << pvars, mvars, cImage1, cParsed, cRet >>

\* isDifferent, psnr = parsePSNROutput(output) (line 107)
ParseOutput ==
  /\ cpc = "ran"
  /\ cParsed' = << parsePSNROutput(cRun[1].output) >>
  /\ cpc' = "parsed"
  /\ UNCHANGED << pvars, mvars, cImage1, cRun, cRet, files >>

\* The rest of compare (lines 109-122)
CompareReturn ==
  /\ cpc = "parsed"
  /\ cRet' = << CompareResult(cImage1, DiffImgsDir, cRun[1], cParsed[1]) >>
  /\ files' = FilesAfterParse(files, cImage1, DiffImgsDir, cParsed[1])
  /\ cpc' = "returned"
  /\ UNCHANGED << pvars, mvars, cImage1, cRun, cParsed >>

NextCompare ==
  \/ RunOracle
  \/ ParseOutput
  \/ CompareReturn

SpecCompare == InitCompare /\ [][NextCompare]_vars

\* ------------------------------------------- ReplaceBase64Images, by steps
\* The decimal digits of a number.
RECURSIVE Dec(_)
Dec(n) == IF n < 10 THEN << Digits[n + 1] >> ELSE Dec(n \div 10) \o << Digits[(n % 10) + 1] >>

\* The name Word gives the k-th picture of a document: image<k>.png.
ImageName(k) == << "i", "m", "a", "g", "e" >> \o Dec(k) \o Png

\* The pieces a markdown content is made of: an image reference with base64
\* data of a MIME type (mime is its sub-type), text, a marker that no "![" is
\* in front of, and a reference that is not closed.
PngRef ==
  [mime |-> << "p", "n", "g" >>, alt |-> << "a" >>,
   text |-> << "!", "[", "a", "]", "(", "d", "a", "t", "a", ":", "i", "m", "a", "g", "e",
              "/", "p", "n", "g", ";", "b", "a", "s", "e", "6", "4", ",", "A", ")" >>]
JpegRef ==
  [mime |-> << "j", "p", "e", "g" >>, alt |-> << "b" >>,
   text |-> << "!", "[", "b", "]", "(", "d", "a", "t", "a", ":", "i", "m", "a", "g", "e",
              "/", "j", "p", "e", "g", ";", "b", "a", "s", "e", "6", "4", ",", "B", ")" >>]
Text == [mime |-> << >>, alt |-> << >>, text |-> << "x", "\n" >>]
BareMarker ==
  [mime |-> << >>, alt |-> << >>, text |-> << "]", "(", "d", "a", "t", "a", ":", "i", "m", "a", "g", "e", "/" >>]
OpenRef ==
  [mime |-> << >>, alt |-> << >>,
   text |-> << "!", "[", "a", "]", "(", "d", "a", "t", "a", ":", "i", "m", "a", "g", "e",
              "/", "p", "n", "g", ";", "b", "a", "s", "e", "6", "4", ",", "A" >>]
Pieces == {PngRef, JpegRef, Text, BareMarker, OpenRef}

RECURSIVE PieceSeqs(_)
PieceSeqs(n) ==
  IF n = 0 THEN {<< >>}
  ELSE PieceSeqs(n - 1) \cup {Append(q, x) : q \in PieceSeqs(n - 1), x \in Pieces}

RECURSIVE Concat(_)
Concat(pieces) ==
  IF pieces = << >> THEN << >> ELSE Head(pieces).text \o Concat(Tail(pieces))

\* Orders in which range may visit the names: the names as numbered, from any
\* of them on.
Rotations(n) == {[k \in 1..n |-> ImageName(((k + r) % n) + 1)] : r \in 0..(n - 1)}

InitReplace ==
  /\ NoCall
  /\ CompareIdle
  /\ files = {}
  /\ map1 = << >>
  /\ map2 = << >>
  /\ rpc = "start"
  /\ \E n \in 0..MaxImages : rImages = Extracted(Dir1, {ImageName(k) : k \in 1..n})
  /\ rPieces \in PieceSeqs(MaxPieces)
  /\ rContent = Concat(rPieces)
  /\ rGroups = << >>
  /\ rCounters = << >>
  /\ rRest = << >>
  /\ rResult = << >>

\* groups, counters, result and rest (lines 84-88)
ReplaceBegin ==
  /\ rpc = "start"
  /\ \E order \in Rotations(Cardinality(DOMAIN rImages)) \cup
                   (IF rImages = << >> THEN {<< >>} ELSE {}) :
       rGroups' = groupImagesByExt(rImages, order)
  /\ rCounters' = << >>
  /\ rResult' = << >>
  /\ rRest' = rContent
  /\ rpc' = "loop"
  /\ UNCHANGED << mvars, cvars, files, maps, rContent, rImages, rPieces >>

\* One iteration of the loop (lines 90-139)
ReplaceLoop ==
  /\ rpc = "loop"
  /\ LET it == ReplaceIteration(rRest, rResult, rCounters, rGroups)
     IN  /\ rRest' = it.rest
         /\ rResult' = it.result
         /\ rCounters' = it.counters
         /\ rpc' = IF it.more THEN "loop" ELSE "return"
  /\ UNCHANGED << mvars, cvars, files, maps, rContent, rImages, rPieces, rGroups >>

\* return result.String(), nil (line 142)
ReplaceReturn ==
  /\ rpc = "return"
  /\ rpc' = "done"
  /\ UNCHANGED << mvars, cvars, files, maps, rContent, rImages, rPieces, rGroups,
                  rCounters, rRest, rResult >>

NextReplace ==
  \/ ReplaceBegin
  \/ ReplaceLoop
  \/ ReplaceReturn

SpecReplace == InitReplace /\ [][NextReplace]_vars

\* ============================================================== properties
\* The oracle did not do its work: it could not run at all, or it exited with
\* a code above 1 ("images differ").
RunFailed(ran) == ran.runErr = "other" \/ (ran.runErr = "exit" /\ ran.code > 1)

\* C3: compare returns a hard error whenever the oracle could not run at all or
\* exited with a code above 1, returns no error when the exit code is 1, and
\* never reports a failed invocation as a not-different outcome.
C3_HardErrorOnFailure ==
  cpc = "returned" =>
    LET ran == cRun[1]
        ret == cRet[1]
    IN  /\ RunFailed(ran) => ret.err
        /\ (ran.runErr = "exit" /\ ran.code = 1) => ~ret.err
        /\ RunFailed(ran) => ~(~ret.err /\ ~ret.isDifferent)

\* The values of a report that are channel values: "inf" or a number.
IsChannelValue(v) == ToLower(v) = Inf \/ ~ParseFloat(v).err
BelowThreshold(v) ==
  ToLower(v) # Inf /\ ~ParseFloat(v).err /\ FLess(ParseFloat(v).val, PSNRThreshold)

\* C10: when the output carries channel values, parsePSNROutput reports
\* different exactly when at least one channel value is strictly below the
\* threshold 1.0; output whose channel values are all at or above it, "inf"
\* included, is not different.
C10_DifferentIffBelowThreshold ==
  cpc \in {"parsed", "returned"} =>
    LET values == FindAllValues(cRun[1].output, 1)
    IN  (\E k \in 1..Len(values) : IsChannelValue(values[k])) =>
          (cParsed[1].isDifferent <=> \E k \in 1..Len(values) : BelowThreshold(values[k]))

\* ----------------------------------------------- the result of a whole call
Succeeded == pc = "done" /\ ~retErr /\ retResult # << >>

Info1(n) == [Name |-> n, Path |-> images1[n]]
Info2(n) == [Name |-> n, Path |-> images2[n]]

\* How often x occurs in a sequence.
Occ(seq, x) == Cardinality({k \in 1..Len(seq) : seq[k] = x})

Image1s(pairs) == [k \in 1..Len(pairs) |-> pairs[k].Image1]
Image2s(pairs) == [k \in 1..Len(pairs) |-> pairs[k].Image2]

\* How often an image of side 1 (of side 2) occurs in the buckets of a result.
Occurrences1(res, img) ==
  Occ(Image1s(res.Matched), img) + Occ(Image1s(res.Different), img)
    + Occ(res.OnlyIn1, img) + Occ(res.Skipped, img)

Occurrences2(res, img) ==
  Occ(Image2s(res.Matched), img) + Occ(Image2s(res.Different), img)
    + Occ(res.OnlyIn2, img) + Occ(res.Skipped, img)

\* The entries of Skipped that come from a set of paths.
SkippedOf(res, paths) == SelectSeq(res.Skipped, LAMBDA x : x.Path \in paths)

Paths1 == {images1[n] : n \in DOMAIN images1}
Paths2 == {images2[n] : n \in DOMAIN images2}

\* C1: after a successful call every image of images1 and every image of
\* images2 is in exactly one bucket of the result, and the sizes add up:
\* |images1| = |Matched| + |Different| + |OnlyIn1| + side-1 entries of Skipped,
\* and likewise for images2.
C1_EveryImageInExactlyOneBucket ==
  Succeeded =>
    LET res == retResult[1]
    IN  /\ \A n \in DOMAIN images1 : Occurrences1(res, Info1(n)) = 1
        /\ \A n \in DOMAIN images2 : Occurrences2(res, Info2(n)) = 1
        /\ Cardinality(DOMAIN images1) =
             Len(res.Matched) + Len(res.Different) + Len(res.OnlyIn1)
               + Len(SkippedOf(res, Paths1))
        /\ Cardinality(DOMAIN images2) =
             Len(res.Matched) + Len(res.Different) + Len(res.OnlyIn2)
               + Len(SkippedOf(res, Paths2))

\* A successful call whose result has a matched pair, an image of one side
\* only and a skipped image.
C1_Witness ==
  /\ Succeeded
  /\ Len(retResult[1].Matched) = 1
  /\ Len(retResult[1].OnlyIn1) + Len(retResult[1].OnlyIn2) >= 1
  /\ Len(retResult[1].Skipped) >= 1

\* C2: a hard error of any comparison, in phase 1 as in phase 2, aborts the
\* whole call: the call returns an error and no result.
C2_HardErrorAbortsCall ==
  (pc = "done" /\ hardErr # {}) => (retErr /\ retResult = << >>)

\* ------------------------------------------------------ within one group
Infos(list) == {ImageInfo(list[k]) : k \in 1..Len(list)}

\* The MatchedPair entries recorded for the group being matched.
GroupMatched == SelectSeq(result.Matched, LAMBDA p : p.Image1 \in Infos(list1))

\* Whether index a of list1 and index b of list2 are recorded as a MatchedPair.
Paired(a, b) ==
  \E k \in 1..Len(result.Matched) :
    /\ result.Matched[k].Image1 = ImageInfo(list1[a])
    /\ result.Matched[k].Image2 = ImageInfo(list2[b])

\* C4: phase 1 is greedy first-fit. In the row of list1 scanned last, an index
\* of list2 is passed over exactly when it was matched by an earlier row; the
\* row is matched with the first index not yet matched for which compare
\* reports not different (without an error) and scanning stops there; a row
\* stays unmatched only when every index that was not yet matched was compared
\* and none compared as not different.
C4_GreedyFirstFit ==
  (pc = "phase1" /\ scan.i > 0) =>
    LET r == scan.i
        v == scan.v
        n == Len(v)
    IN  /\ n <= Len(list2)
        /\ \A c \in 1..n :
             /\ v[c] = "taken" <=> \E a \in 1..(r - 1) : Paired(a, c)
             /\ v[c] = "same" => c = n /\ Paired(r, c) /\ i = r + 1 /\ j = 1
             /\ v[c] \in {"diff", "err"} => ~Paired(r, c)
        /\ (\E c \in 1..Len(list2) : Paired(r, c)) => (n >= 1 /\ v[n] = "same")
        /\ (i = r /\ j <= Len(list2)) => (j = n + 1 /\ \A c \in 1..n : v[c] # "same")
        /\ (i > r /\ \A c \in 1..n : v[c] # "same") => n = Len(list2)

\* A row that compared the first index as different and was matched with the
\* second.
C4_Witness ==
  /\ pc = "phase1"
  /\ Len(list2) = 2
  /\ scan = [i |-> 1, v |-> << "diff", "same" >>]
  /\ i = 2

\* C5: at every point of phase 1 the recorded matches of the group are a
\* bijection between the matched subsets: no index of list1 and no index of
\* list2 is in two MatchedPair entries, and matched1 / matched2 hold exactly
\* the indices that are in a recorded MatchedPair of the group.
C5_MatchingIsBijection ==
  pc = "phase1" =>
    LET gm == GroupMatched
    IN  /\ \A a, b \in 1..Len(gm) :
             a # b => (gm[a].Image1 # gm[b].Image1 /\ gm[a].Image2 # gm[b].Image2)
        /\ \A a \in 1..Len(gm) : gm[a].Image2 \in Infos(list2)
        /\ matched1 = {a \in 1..Len(list1) : \E b \in 1..Len(list2) : Paired(a, b)}
        /\ matched2 = {b \in 1..Len(list2) : \E a \in 1..Len(list1) : Paired(a, b)}
        /\ Cardinality(matched1) = Len(gm)
        /\ Cardinality(matched2) = Len(gm)

\* Phase 1 with two recorded pairs, the second row having passed over the
\* index the first row took.
C5_Witness ==
  /\ pc = "phase1"
  /\ matched1 = {1, 2}
  /\ matched2 = {1, 2}
  /\ scan = [i |-> 2, v |-> << "taken", "same" >>]

\* The entries of a list that are in no MatchedPair of a result, in the order
\* of the list: U1 and U2.
Leftover1(res, list) ==
  SelectSeq(list, LAMBDA e : \A k \in 1..Len(res.Matched) : res.Matched[k].Image1 # ImageInfo(e))
Leftover2(res, list) ==
  SelectSeq(list, LAMBDA e : \A k \in 1..Len(res.Matched) : res.Matched[k].Image2 # ImageInfo(e))

\* The DiffPair entries of a result that hold an image of the lists.
DifferentOf(res, l1, l2) ==
  SelectSeq(res.Different, LAMBDA p : p.Image1 \in Infos(l1) \/ p.Image2 \in Infos(l2))

\* The k-th DiffPair of d pairs the k-th entries of u1 and u2, for every k.
PairedByPosition(d, u1, u2) ==
  /\ Len(d) <= Len(u1)
  /\ Len(d) <= Len(u2)
  /\ \A k \in 1..Len(d) :
       d[k].Image1 = ImageInfo(u1[k]) /\ d[k].Image2 = ImageInfo(u2[k])

Min(a, b) == IF a < b THEN a ELSE b

\* The extension groups of the call, and the ones the capability table lets
\* the call compare.
AllExts == DOMAIN groups1 \cup DOMAIN groups2
Comparable(ext) == ext \in rasterExts \/ (ext \in vectorExts /\ hasLibreOffice)

\* C6: phase 2 pairs the leftovers by position. During phase 2 the lists
\* unmatched1 and unmatched2 are the entries in no MatchedPair, in the order
\* of the group, and the DiffPair entries of the group are the pairs
\* (U1[k], U2[k]) handled so far; after a successful call every compared group
\* has exactly min(len(U1), len(U2)) DiffPair entries, the k-th being
\* (U1[k], U2[k]), whatever the phase-2 comparisons reported.
C6_LeftoversPairedByPosition ==
  /\ pc = "phase2" =>
       /\ unmatched1 = Leftover1(result, list1)
       /\ unmatched2 = Leftover2(result, list2)
       /\ Len(DifferentOf(result, list1, list2)) = i - 1
       /\ i - 1 <= Min(Len(unmatched1), Len(unmatched2))
       /\ PairedByPosition(DifferentOf(result, list1, list2), unmatched1, unmatched2)
  /\ Succeeded =>
       \A ext \in AllExts :
         Comparable(ext) =>
           LET l1 == GroupOf(groups1, ext)
               l2 == GroupOf(groups2, ext)
               u1 == Leftover1(retResult[1], l1)
               u2 == Leftover2(retResult[1], l2)
               d  == DifferentOf(retResult[1], l1, l2)
           IN  Len(d) = Min(Len(u1), Len(u2)) /\ PairedByPosition(d, u1, u2)

\* A successful call with two DiffPair entries, one of them for a pair that
\* phase 2 compared as not different (PSNR 35.5, no diff image).
C6_Witness ==
  /\ Succeeded
  /\ Len(retResult[1].Different) = 2
  /\ retResult[1].Matched = << >>
  /\ retResult[1].Different[2].PSNR = [m |-> 355, e |-> 1]
  /\ retResult[1].Different[2].DiffPath = << >>
  /\ retResult[1].Different[1].DiffPath # << >>

\* The entries of a sequence of ImageInfo that are images of a list.
OnlyOf(only, list) == SelectSeq(only, LAMBDA x : x \in Infos(list))

\* The entries of u after the first n, as ImageInfo.
Beyond(u, n) == [k \in 1..(Len(u) - n) |-> ImageInfo(u[n + k])]

Ascending(only) ==
  \A a, b \in 1..Len(only) : a < b => StrLess(only[a].Name, only[b].Name)

\* C7: after a successful call, OnlyIn1 and OnlyIn2 hold of every compared
\* group exactly the leftovers U1[k] / U2[k] with k >= min(len(U1), len(U2)),
\* in the ascending-name order of the group.
C7_OnlyInAreLeftoversInOrder ==
  Succeeded =>
    \A ext \in AllExts :
      Comparable(ext) =>
        LET l1 == GroupOf(groups1, ext)
            l2 == GroupOf(groups2, ext)
            u1 == Leftover1(retResult[1], l1)
            u2 == Leftover2(retResult[1], l2)
            n  == Min(Len(u1), Len(u2))
            o1 == OnlyOf(retResult[1].OnlyIn1, l1)
            o2 == OnlyOf(retResult[1].OnlyIn2, l2)
        IN  /\ o1 = Beyond(u1, n)
            /\ o2 = Beyond(u2, n)
            /\ Ascending(o1)
            /\ Ascending(o2)

\* A successful call in which a.png and c.PNG of side 1 are both left without
\* a counterpart.
C7_Witness ==
  /\ Succeeded
  /\ Len(retResult[1].OnlyIn1) = 2
  /\ retResult[1].OnlyIn1[1].Name = << "a", ".", "p", "n", "g" >>
  /\ retResult[1].OnlyIn1[2].Name = << "c", ".", "P", "N", "G" >>

\* The group of a file name: its extension in lower case.
GroupKey(name) == ToLower(Ext(name))

C9_Deterministic ==
  /\ (run = 2 /\ pc = "done" /\ tempDir = "removed" /\ first[1].tempDir = "removed") =>
       (retResult = first[1].result /\ retErr = first[1].err)
  /\ pc \in {"loop", "phase1", "phase2"} =>
       /\ \A a, b \in 1..Len(sortedExts) : a < b => StrLess(sortedExts[a], sortedExts[b])
       /\ {sortedExts[k] : k \in 1..Len(sortedExts)} = AllExts
       /\ \A ext \in DOMAIN groups1 :
            \A a, b \in 1..Len(groups1[ext]) :
              a < b => StrLess(groups1[ext][a].name, groups1[ext][b].name)
       /\ \A ext \in DOMAIN groups2 :
            \A a, b \in 1..Len(groups2[ext]) :
              a < b => StrLess(groups2[ext][a].name, groups2[ext][b].name)

\* A second call that returned, like the first, a result with a matched pair
\* of two images of different names and a DiffPair.
C9_Witness ==
  /\ run = 2
  /\ Succeeded
  /\ first[1].result = retResult
  /\ Len(retResult[1].Matched) = 1
  /\ Len(retResult[1].Different) = 1
  /\ Len(retResult[1].Skipped) = 0
  /\ retResult[1].Matched[1].Image1.Name # retResult[1].Matched[1].Image2.Name

\* ------------------------------------------------- the score of a report
\* The channel values of a report that are usable: numbers, "inf" left out.
Usable(values) ==
  SelectSeq(values, LAMBDA v : ToLower(v) # Inf /\ ~ParseFloat(v).err)

\* C11: the score parsePSNROutput returns is the minimum of the usable channel
\* values of the report (worst channel wins); without a usable value it is 0
\* when the zero-signal heuristic applies and the undefined sentinel -1
\* otherwise, so it is negative only when no usable value was parsed and the
\* heuristic did not apply.
C11_ScoreIsMinimum ==
  cpc \in {"parsed", "returned"} =>
    LET output == cRun[1].output
        usable == Usable(FindAllValues(output, 1))
        psnr   == cParsed[1].psnr
    IN  /\ usable # << >> =>
             /\ \E k \in 1..Len(usable) : psnr = ParseFloat(usable[k]).val
             /\ \A k \in 1..Len(usable) : ~FLess(ParseFloat(usable[k]).val, psnr)
        /\ (usable = << >> /\ ZeroSignal(output)) => psnr = Zero
        /\ (usable = << >> /\ ~ZeroSignal(output)) => psnr = Minus1
        /\ psnr.m < 0 <=> (usable = << >> /\ ~ZeroSignal(output))

\* A report with the channel values 1.0 and 0.999, in this order, parsed to
\* the score 0.999.
C11_Witness ==
  /\ cpc = "parsed"
  /\ Len(Usable(FindAllValues(cRun[1].output, 1))) = 2
  /\ FindAllValues(cRun[1].output, 1)[1] = << "1", ".", "0" >>
  /\ cParsed[1].psnr = [m |-> 999, e |-> 3]

\* A report without a usable value to which the heuristic does not apply,
\* parsed to the undefined score.
C11_WitnessUndefined ==
  /\ cpc = "parsed"
  /\ FindAllValues(cRun[1].output, 1) = << Inf >>
  /\ cParsed[1].psnr = Minus1

\* ------------------------------------------------------ the artifact files
\* C12: whenever compare reports not different (an error included), the
\* artifact path it returns is empty and the artifact file at diffPath, which
\* the oracle may have written in this call or in an earlier one, is gone; so a
\* DiffPair has a non-empty DiffPath only when its phase-2 comparison reported
\* different.
C12_NoArtifactUnlessDifferent ==
  /\ last # << >> =>
       (~last[1].isDifferent =>
          /\ last[1].diffPath = << >>
          /\ ArtifactPath(last[1].image1, last[1].outputDir) \notin files)
  /\ Len(reported) = Len(result.Different)
  /\ \A k \in 1..Len(result.Different) :
       result.Different[k].DiffPath # << >> => reported[k]

\* Phase 2 after two comparisons, the first different, its artifact renamed,
\* the second not different: its DiffPair has no DiffPath and its artifact is
\* deleted.
C12_Witness ==
  /\ pc = "phase2"
  /\ reported = << TRUE, FALSE >>
  /\ result.Different[1].DiffPath \in files
  /\ result.Different[2].DiffPath = << >>
  /\ last[1].phase = 2
  /\ ~last[1].isDifferent
  /\ Cardinality(files) = 1

\* C13: within one call no two DiffPair entries have the same artifact path:
\* the name <name1-without-ext>-<name2-without-ext>.<ext> of phase 2 is unique
\* for every pair (U1[k], U2[k]), also for names that hold a '-'.
C13_ArtifactPathsAreUnique ==
  \A k, l \in 1..Len(result.Different) :
    (k # l /\ result.Different[k].DiffPath # << >>) =>
      result.Different[k].DiffPath # result.Different[l].DiffPath

\* ------------------------------------------------ insertion and deletion
\* How many entries of a list have the content c.
WithContent(list, c) == Cardinality({k \in 1..Len(list) : content[list[k].path] = c})

\* Every content occurs in l2 at least as often as in l1.
Covers(l2, l1) == \A c \in Contents : WithContent(l1, c) <= WithContent(l2, c)

\* C14: pure insertion or deletion. With an oracle that reports not different
\* exactly for images of the same content, a compared group in which every
\* content occurs on side 2 at least as often as on side 1 has every image of
\* side 1 in a MatchedPair with an image of its content, no DiffPair, no
\* OnlyIn1 entry and exactly the side-2 images in no MatchedPair in OnlyIn2;
\* when the contents occur equally often on both sides, OnlyIn2 has none.
C14_PureInsertion ==
  (Succeeded /\ content # << >>) =>
    \A ext \in AllExts :
      LET l1  == GroupOf(groups1, ext)
          l2  == GroupOf(groups2, ext)
          res == retResult[1]
      IN  (Comparable(ext) /\ Covers(l2, l1)) =>
            /\ \A k \in 1..Len(l1) : Occ(Image1s(res.Matched), ImageInfo(l1[k])) = 1
            /\ \A k \in 1..Len(res.Matched) :
                 content[res.Matched[k].Image1.Path] = content[res.Matched[k].Image2.Path]
            /\ DifferentOf(res, l1, l2) = << >>
            /\ OnlyOf(res.OnlyIn1, l1) = << >>
            /\ OnlyOf(res.OnlyIn2, l2) =
                 [k \in 1..Len(Leftover2(res, l2)) |-> ImageInfo(Leftover2(res, l2)[k])]
            /\ Len(OnlyOf(res.OnlyIn2, l2)) = Len(l2) - Len(l1)
            /\ Covers(l1, l2) => OnlyOf(res.OnlyIn2, l2) = << >>

\* Scenario B: a.png and b.png on side 1, a.png, b.png and x.png on side 2,
\* a.png of side 1 having the content of b.png of side 2: two matched pairs
\* and x.png in OnlyIn2.
C14_Witness ==
  /\ Succeeded
  /\ content # << >>
  /\ Len(retResult[1].Matched) = 2
  /\ retResult[1].Matched[1].Image1.Name = << "a", ".", "p", "n", "g" >>
  /\ retResult[1].Matched[1].Image2.Name = << "b", ".", "p", "n", "g" >>
  /\ retResult[1].Different = << >>
  /\ Len(retResult[1].OnlyIn2) = 1
  /\ retResult[1].OnlyIn2[1].Name = << "x", ".", "p", "n", "g" >>

\* ------------------------------------------------- the temporary directory
Under(dir) == {f \in files : HasPrefixAt(f, dir \o << "/" >>, 1)}

\* C15: the temporary directory of the call is there from os.MkdirTemp to the
\* return and is removed, with the artifacts of phase 1 in it, on every exit
\* path: the return of the result and the return of the hard error of a group.
\* The call that could not create it leaves none.
C15_TempDirRemovedOnEveryExit ==
  /\ pc \in {"group1", "group2", "exts", "loop", "phase1", "phase2"} => tempDir = "exists"
  /\ pc = "done" =>
       /\ tempDir # "exists"
       /\ Under(TempDirName) = {}
       /\ tempDir = "none" => (retErr /\ calls = << >>)
       /\ (~retErr \/ hardErr # {}) => tempDir = "removed"

\* The return of a hard error of phase 2, after a comparison of phase 1 that
\* reported different and left its artifact in the temporary directory.
C15_Witness ==
  /\ pc = "done"
  /\ retErr
  /\ 2 \in hardErr
  /\ tempDir = "removed"
  /\ \E k \in 1..Len(scan.v) : scan.v[k] = "diff"
  /\ files = {}

\* Phase 2 with an artifact of phase 1 in the temporary directory.
C15_WitnessInUse ==
  /\ pc = "phase2"
  /\ Under(TempDirName) # {}

\* ------------------------------------------------------- the path mappings
\* C16: BuildPathMapping maps both images of every matched pair to the file
\* name of the image of side 1, maps the images of every DiffPair, of OnlyIn1
\* and of OnlyIn2 to the base name of their document, '/' and their file name,
\* and every image path of the result is a key of the map of its side.
C16_PathMapping ==
  pc = "mapped" =>
    LET res == retResult[1]
    IN  /\ \A n \in DOMAIN images1 : images1[n] \in DOMAIN map1
        /\ \A n \in DOMAIN images2 : images2[n] \in DOMAIN map2
        /\ \A k \in 1..Len(res.Matched) :
             /\ map1[res.Matched[k].Image1.Path] = res.Matched[k].Image1.Name
             /\ map2[res.Matched[k].Image2.Path] = res.Matched[k].Image1.Name
        /\ \A k \in 1..Len(res.Different) :
             /\ map1[res.Different[k].Image1.Path] =
                  Doc1Base \o << "/" >> \o res.Different[k].Image1.Name
             /\ map2[res.Different[k].Image2.Path] =
                  Doc2Base \o << "/" >> \o res.Different[k].Image2.Name
        /\ \A k \in 1..Len(res.OnlyIn1) :
             map1[res.OnlyIn1[k].Path] = Doc1Base \o << "/" >> \o res.OnlyIn1[k].Name
        /\ \A k \in 1..Len(res.OnlyIn2) :
             map2[res.OnlyIn2[k].Path] = Doc2Base \o << "/" >> \o res.OnlyIn2[k].Name

\* The mappings of a result with a matched pair of two images of different
\* names and a DiffPair.
C16_Witness ==
  /\ pc = "mapped"
  /\ Len(retResult[1].Matched) = 1
  /\ Len(retResult[1].Different) = 1
  /\ retResult[1].Matched[1].Image1.Name # retResult[1].Matched[1].Image2.Name
  /\ map2[retResult[1].Matched[1].Image2.Path] = retResult[1].Matched[1].Image1.Name

\* ------------------------------------------------------------ vector images
IsVector(name) == GroupKey(name) \in vectorExts

\* C17: with --convert-png=true, the default, the vector images (.wmf, .emf,
\* .svg) are compared without LibreOffice and are not skipped; a vector image
\* is skipped only when --convert-png=false is given and LibreOffice is not
\* installed.
C17_VectorSkippedOnlyWithoutConversion ==
  Succeeded =>
    /\ \A n \in DOMAIN images1 :
         (IsVector(n) /\ Occ(retResult[1].Skipped, Info1(n)) > 0) =>
           (~convertPNG /\ ~hasLibreOffice)
    /\ \A n \in DOMAIN images2 :
         (IsVector(n) /\ Occ(retResult[1].Skipped, Info2(n)) > 0) =>
           (~convertPNG /\ ~hasLibreOffice)

\* ------------------------------------------------- the image references
\* The content the pieces should become: the N-th reference of a MIME type
\* replaced by the path of image<N>.<ext>, as long as N is at most the number
\* of images of the extension; n counts the references of each MIME type.
RECURSIVE Replaced(_, _)
Replaced(pieces, n) ==
  IF pieces = << >> THEN << >>
  ELSE LET p   == Head(pieces)
           ext == resolveExt(p.mime, rGroups)
           N   == Counter(n, p.mime) + 1
       IN  IF p.mime = << >> THEN p.text \o Replaced(Tail(pieces), n)
           ELSE (IF ext # << >> /\ N <= Len(rGroups[ext])
                   THEN ImgOpen \o p.alt \o << "]", "(" >>
                          \o rImages[<< "i", "m", "a", "g", "e" >> \o Dec(N) \o ext]
                          \o << ")" >>
                   ELSE p.text)
                \o Replaced(Tail(pieces), Put(n, p.mime, N))

WellFormed(pieces) ==
  \A k \in 1..Len(pieces) : pieces[k] \in {PngRef, JpegRef, Text}

\* C18: ReplaceBase64Images replaces, for each MIME type, the N-th base64
\* image reference of the content by the path of image<N>.<ext> of word/media,
\* for every N up to the number of images of that extension, also with ten
\* images or more, and leaves the references beyond that number unchanged.
C18_NthReferenceIsImageN ==
  (rpc = "done" /\ WellFormed(rPieces)) => rResult = Replaced(rPieces, << >>)

\* ------------------------------------------------- the outcome of phase 2
\* The DiffPair entries of the group being matched.
GroupDifferent == DifferentOf(result, list1, list2)

\* C19: with an oracle that answers a pair the same way every time, every
\* DiffPair recorded was reported different by its phase-2 comparison and has
\* a DiffPath, because its pair was compared in phase 1 already and not
\* matched; a DiffPair with a not-different outcome is not reachable.
C19_DiffPairsAreDifferent ==
  /\ Len(reported) = Len(result.Different)
  /\ \A k \in 1..Len(reported) : reported[k] /\ result.Different[k].DiffPath # << >>
  /\ pc = "phase2" =>
       \A k \in 1..Len(GroupDifferent) :
         << 1, GroupDifferent[k].Image1.Path, GroupDifferent[k].Image2.Path >> \in invoked
  /\ Succeeded => Len(retResult[1].Different) = Len(reported)

\* A successful call with a matched pair and a DiffPair whose images phase 1
\* compared, too.
C19_Witness ==
  /\ Succeeded
  /\ Len(retResult[1].Matched) = 1
  /\ Len(retResult[1].Different) = 1
  /\ reported = << TRUE >>
  /\ << 1, retResult[1].Different[1].Image1.Path, retResult[1].Different[1].Image2.Path >>
       \in invoked

\* --------------------------------------------- termination and the calls
CallGroup(c) == GroupKey(c[2])

\* How many calls of compare a phase made for the group of an extension.
PhaseCalls(ext, phase) ==
  Cardinality({k \in 1..Len(calls) : calls[k][1] = phase /\ CallGroup(calls[k]) = ext})

CallsBounded ==
  /\ \A k \in 1..Len(calls) : GroupKey(calls[k][2]) = GroupKey(calls[k][3])
  /\ \A ext \in AllExts :
       /\ PhaseCalls(ext, 1) <= Len(GroupOf(groups1, ext)) * Len(GroupOf(groups2, ext))
       /\ PhaseCalls(ext, 2) <= Min(Len(GroupOf(groups1, ext)), Len(GroupOf(groups2, ext)))
  /\ \A a, b \in 1..Len(calls) :
       a < b =>
         /\ CallGroup(calls[a]) = CallGroup(calls[b]) => calls[a][1] <= calls[b][1]
         /\ CallGroup(calls[a]) # CallGroup(calls[b]) =>
              StrLess(CallGroup(calls[a]), CallGroup(calls[b]))

====
